---- MODULE Spec2Model ----
(***************************************************************************)
(* A model of AggregatedStats (src/AggregatedStats.cpp): the orchestrator  *)
(* that turns one immutable HealingStats snapshot plus HealWindowOptions   *)
(* into lazily computed, cached, sorted views.                             *)
(*                                                                         *)
(* Strings are sequences of character codes, so that the two alphabetical  *)
(* sort orders compare names as std::string does.  uint64_t sums are       *)
(* modelled by unbounded naturals: every input drawn below is far from     *)
(* 2^64, so no sum wraps.                                                  *)
(***************************************************************************)
EXTENDS Integers, Sequences, FiniteSets, TLC

VARIABLES
    mySourceData,        \* HealingStats moved in at construction
    myOptions,           \* HealWindowOptions copied in at construction
    myDebugMode,         \* bool
    myTotal,             \* unique_ptr<AggregatedStatsEntry>, NullPtr when absent
    myAllAgents,         \* unique_ptr<map<uintptr_t, AgentStats>>
    myFilteredAgents,    \* unique_ptr<AggregatedVector>
    mySkills,            \* unique_ptr<AggregatedVector>
    myGroupFilterTotals, \* unique_ptr<AggregatedVector>
    myAgentsDetailed,    \* map<uintptr_t, AggregatedVector>
    mySkillsDetailed,    \* map<uint32_t, AggregatedVector>
    ret                  \* what the last public call returned: the cache slot
                         \* its reference points into, or the combat time

vars == <<mySourceData, myOptions, myDebugMode, myTotal, myAllAgents,
          myFilteredAgents, mySkills, myGroupFilterTotals, myAgentsDetailed,
          mySkillsDetailed, ret>>

caches == <<myTotal, myAllAgents, myFilteredAgents, mySkills,
            myGroupFilterTotals, myAgentsDetailed, mySkillsDetailed>>

input == <<mySourceData, myOptions, myDebugMode>>

-----------------------------------------------------------------------------
(* Bounds of the inputs.                                                   *)

\* subgroups are drawn from 0..MaxSubgroup (0 = not in the squad)
MaxSubgroup == 2

\* the four timestamps are drawn from 0..MaxTime
MaxTime == 2

\* agent ids of the snapshots (A = 1, B = 2, C = 3)
AgentIds == {1, 2, 3}

\* skill ids of the snapshots (S1 = 1, S2 = 2)
SkillIds == {1, 2}

\* ids the drill-down operations are called with: agents A, B, C; skills S1,
\* S2 and the id 3 that no snapshot holds
DetailIds == {1, 2, 3}

-----------------------------------------------------------------------------
(* Values.                                                                 *)

NullPtr == [null |-> TRUE]

\* mySourceData.Agents.end()
AgentsEnd == 0

\* the values of SortOrder below SortOrder::Max
SortOrders == {"AscendingAlphabetical", "DescendingAlphabetical",
               "AscendingSize", "DescendingSize"}

DataSources == {"Agents", "Skills", "Totals"}

CombatEndConditions == {"CombatExit", "LastDamageEvent", "LastHealEvent"}

GroupFilterMax == 4

\* "Group", "Squad", "All (Excluding Summons)", "All (Including Summons)"
GROUP_FILTER_STRING ==
    << <<71, 114, 111, 117, 112>>,
       <<83, 113, 117, 97, 100>>,
       <<65, 108, 108, 32, 40, 69, 120, 99, 108, 117, 100, 105, 110, 103, 32,
         83, 117, 109, 109, 111, 110, 115, 41>>,
       <<65, 108, 108, 32, 40, 73, 110, 99, 108, 117, 100, 105, 110, 103, 32,
         83, 117, 109, 109, 111, 110, 115, 41>> >>

\* "__TOTAL__"
TotalName == <<95, 95, 84, 79, 84, 65, 76, 95, 95>>

\* "Healing by Damage Dealt"
IndirectHealingName ==
    <<72, 101, 97, 108, 105, 110, 103, 32, 98, 121, 32, 68, 97, 109, 97, 103,
      101, 32, 68, 101, 97, 108, 116>>

\* "(INDIRECT) ; "
IndirectPrefix == <<40, 73, 78, 68, 73, 82, 69, 67, 84, 41, 32, 59, 32>>

\* " ; "
Separator == <<32, 59, 32>>

\* "(UNMAPPED)"
UnmappedText == <<40, 85, 78, 77, 65, 80, 80, 69, 68, 41>>

\* the id of the synthetic entry; Skills.h sets it, distinct from every skill
IndirectHealingSkillId == 9

\* SkillTable::GlobalState.IsSkillIndirectHealing: the classification service
\* counts S2 as healing by damage dealt
IsSkillIndirectHealing(pSkillId, pName) == pSkillId = 2

Max(a, b) == IF a >= b THEN a ELSE b

Min(a, b) == IF a <= b THEN a ELSE b

\* std::to_string and printf's %llu / %u: the decimal digits of n
RECURSIVE to_string(_)
to_string(n) ==
    IF n < 10 THEN <<48 + n>> ELSE to_string(n \div 10) \o <<48 + (n % 10)>>

\* std::string's operator<: lexicographic on the character codes
StringLess(a, b) ==
    \E k \in 0..Min(Len(a), Len(b)) :
        /\ \A i \in 1..k : a[i] = b[i]
        /\ \/ k = Len(a) /\ k < Len(b)
           \/ k < Len(a) /\ k < Len(b) /\ a[k + 1] < b[k + 1]

\* the keys of a std::map in iteration order (ascending)
RECURSIVE Keys(_)
Keys(S) ==
    IF S = {} THEN <<>>
    ELSE LET m == CHOOSE x \in S : \A y \in S : x <= y
         IN <<m>> \o Keys(S \ {m})

AggregatedStatsEntry(pId, pName, pHealing, pHits) ==
    [Id |-> pId, Name |-> pName, Healing |-> pHealing, Hits |-> pHits]

\* a default-constructed AggregatedVector
EmptyVector == [Entries |-> <<>>, HighestHealing |-> 0]

\* AggregatedVector::Add
Add(pVector, pId, pName, pHealing, pHits) ==
    [Entries |-> Append(pVector.Entries,
                        AggregatedStatsEntry(pId, pName, pHealing, pHits)),
     HighestHealing |-> Max(pVector.HighestHealing, pHealing)]

RECURSIVE SumSeq(_)
SumSeq(pNumbers) ==
    IF pNumbers = <<>> THEN 0 ELSE Head(pNumbers) + SumSeq(Tail(pNumbers))

RECURSIVE SumHealing(_)
SumHealing(pEntries) ==
    IF pEntries = <<>> THEN 0
    ELSE Head(pEntries).Healing + SumHealing(Tail(pEntries))

RECURSIVE SumHits(_)
SumHits(pEntries) ==
    IF pEntries = <<>> THEN 0
    ELSE Head(pEntries).Hits + SumHits(Tail(pEntries))

-----------------------------------------------------------------------------
(* Sort: std::sort under the comparator the sort order selects.  std::sort *)
(* is not stable, so every arrangement without an inversion is a possible  *)
(* result.                                                                 *)

SortLess(pOrder, pLeft, pRight) ==
    CASE pOrder = "AscendingAlphabetical" ->
             StringLess(pLeft.Name, pRight.Name)
      [] pOrder = "DescendingAlphabetical" ->
             StringLess(pRight.Name, pLeft.Name)
      [] pOrder = "AscendingSize" -> pLeft.Healing < pRight.Healing
      [] pOrder = "DescendingSize" -> pLeft.Healing > pRight.Healing

IsSorted(pOrder, pEntries) ==
    \A i, j \in 1..Len(pEntries) :
        i < j => ~SortLess(pOrder, pEntries[j], pEntries[i])

Sort(pOrder, pEntries) ==
    LET n == Len(pEntries)
        arrangements == {[i \in 1..n |-> pEntries[p[i]]] :
                             p \in Permutations(1..n)}
    IN {s \in arrangements : IsSorted(pOrder, s)}

-----------------------------------------------------------------------------
(* The agent filter.                                                       *)

\* std::map::find on mySourceData.Agents
FindAgent(pAgentId) ==
    IF pAgentId \in DOMAIN mySourceData.Agents THEN pAgentId ELSE AgentsEnd

\* FilterInternal with the off-squad rule not asking for a local subgroup
FilterInternalNoLocalCheck(pAgent, pFilter) ==
    IF pAgent = AgentsEnd
    THEN pFilter.ExcludeUnmapped
    ELSE LET agent == mySourceData.Agents[pAgent]
         IN \/ agent.IsMinion /\ pFilter.ExcludeMinions
            \/ /\ agent.Subgroup = 0
               /\ pFilter.ExcludeOffSquad
            \/ /\ agent.Subgroup # 0
               /\ mySourceData.SubGroup # agent.Subgroup
               /\ pFilter.ExcludeOffGroup
            \/ /\ agent.Subgroup = mySourceData.SubGroup
               /\ pFilter.ExcludeGroup

\* FilterInternal with the two returns of the unmapped branch swapped
FilterInternalUnmappedSwapped(pAgent, pFilter) ==
    IF pAgent = AgentsEnd
    THEN ~pFilter.ExcludeUnmapped
    ELSE LET agent == mySourceData.Agents[pAgent]
         IN \/ agent.IsMinion /\ pFilter.ExcludeMinions
            \/ /\ agent.Subgroup = 0
               /\ mySourceData.SubGroup # 0
               /\ pFilter.ExcludeOffSquad
            \/ /\ agent.Subgroup # 0
               /\ mySourceData.SubGroup # agent.Subgroup
               /\ pFilter.ExcludeOffGroup
            \/ /\ agent.Subgroup = mySourceData.SubGroup
               /\ pFilter.ExcludeGroup

FilterInternal(pAgent, pFilter) ==
    IF pAgent = AgentsEnd
    THEN pFilter.ExcludeUnmapped
    ELSE LET agent == mySourceData.Agents[pAgent]
         IN \/ agent.IsMinion /\ pFilter.ExcludeMinions
            \/ /\ agent.Subgroup = 0
               /\ mySourceData.SubGroup # 0
               /\ pFilter.ExcludeOffSquad
            \/ /\ agent.Subgroup # 0
               /\ mySourceData.SubGroup # agent.Subgroup
               /\ pFilter.ExcludeOffGroup
            \/ /\ agent.Subgroup = mySourceData.SubGroup
               /\ pFilter.ExcludeGroup

\* both overloads of Filter, evaluated against a given options object
Filter(pAgentId, pOptions) == FilterInternal(FindAgent(pAgentId), pOptions)

-----------------------------------------------------------------------------
(* Display names.                                                          *)

\* the name GetAgents and GetSkillDetails give an agent's entry
AgentDisplayName(pAgentId, pDebugMode) ==
    LET mapAgent == FindAgent(pAgentId)
    IN IF ~pDebugMode
       THEN IF mapAgent # AgentsEnd
            THEN mySourceData.Agents[mapAgent].Name
            ELSE to_string(pAgentId)
       ELSE IF mapAgent # AgentsEnd
            THEN to_string(pAgentId) \o Separator
                 \o to_string(mySourceData.Agents[mapAgent].Subgroup)
                 \o Separator
                 \o to_string(IF mySourceData.Agents[mapAgent].IsMinion
                              THEN 1 ELSE 0)
                 \o Separator \o mySourceData.Agents[mapAgent].Name
            ELSE to_string(pAgentId) \o Separator \o UnmappedText

\* the name GetSkills and GetAgentDetails give a skill's own entry
SkillDisplayName(pSkillId, pIsIndirectHealing, pDebugMode) ==
    IF ~pDebugMode
    THEN mySourceData.SkillsHealing[pSkillId].Name
    ELSE (IF pIsIndirectHealing THEN IndirectPrefix ELSE <<>>)
         \o to_string(pSkillId) \o Separator
         \o mySourceData.SkillsHealing[pSkillId].Name

-----------------------------------------------------------------------------
(* GetAllAgents: every skill's per-agent record, merged per agent.         *)

\* GetAllAgents without the branch for an agent already in the map: only
\* the first skill of an agent counts
AllAgentsMapFirstSkillOnly ==
    LET skills == mySourceData.SkillsHealing
        agentIds == UNION {DOMAIN skills[s].AgentsHealing : s \in DOMAIN skills}
        First(a) == CHOOSE s \in DOMAIN skills :
                        /\ a \in DOMAIN skills[s].AgentsHealing
                        /\ \A t \in DOMAIN skills :
                               a \in DOMAIN skills[t].AgentsHealing => s <= t
    IN [a \in agentIds |-> skills[First(a)].AgentsHealing[a]]

AllAgentsMap ==
    LET skills == mySourceData.SkillsHealing
        skillIds == Keys(DOMAIN skills)
        agentIds == UNION {DOMAIN skills[s].AgentsHealing : s \in DOMAIN skills}
        Healing(s, a) == IF a \in DOMAIN skills[s].AgentsHealing
                         THEN skills[s].AgentsHealing[a].TotalHealing ELSE 0
        Ticks(s, a) == IF a \in DOMAIN skills[s].AgentsHealing
                       THEN skills[s].AgentsHealing[a].Ticks ELSE 0
    IN [a \in agentIds |->
           [TotalHealing |->
                SumSeq([i \in 1..Len(skillIds) |-> Healing(skillIds[i], a)]),
            Ticks |->
                SumSeq([i \in 1..Len(skillIds) |-> Ticks(skillIds[i], a)])]]

\* what GetAllAgents returns, and leaves in myAllAgents
GetAllAgents == IF myAllAgents # NullPtr THEN myAllAgents ELSE AllAgentsMap

-----------------------------------------------------------------------------
(* GetAgents.                                                              *)

RECURSIVE AgentsLoop(_, _, _, _, _)
AgentsLoop(pAgentIds, pAllAgents, pVector, pOptions, pDebugMode) ==
    IF pAgentIds = <<>> THEN pVector
    ELSE LET agentId == Head(pAgentIds)
             next ==
                 IF Filter(agentId, pOptions)
                 THEN pVector
                 ELSE Add(pVector, agentId,
                          AgentDisplayName(agentId, pDebugMode),
                          pAllAgents[agentId].TotalHealing,
                          pAllAgents[agentId].Ticks)
         IN AgentsLoop(Tail(pAgentIds), pAllAgents, next, pOptions, pDebugMode)

\* the vector GetAgents builds, before Sort
AgentsVector(pAllAgents, pOptions, pDebugMode) ==
    AgentsLoop(Keys(DOMAIN pAllAgents), pAllAgents, EmptyVector, pOptions,
               pDebugMode)

-----------------------------------------------------------------------------
(* GetSkills.                                                              *)

\* the inner loop of GetSkills: one skill's healing and ticks over the
\* agents the filter lets through
SkillFilteredTotals(pSkillId, pOptions) ==
    LET healing == mySourceData.SkillsHealing[pSkillId].AgentsHealing
        agentIds == Keys({a \in DOMAIN healing : ~Filter(a, pOptions)})
    IN [totalHealing |->
            SumSeq([i \in 1..Len(agentIds) |-> healing[agentIds[i]].TotalHealing]),
        ticks |->
            SumSeq([i \in 1..Len(agentIds) |-> healing[agentIds[i]].Ticks])]

\* whether the loop body reaches the Add of the skill's own entry
EmitsOwnEntry(pIsIndirectHealing, pDebugMode) ==
    ~pIsIndirectHealing \/ pDebugMode

RECURSIVE SkillsLoop(_, _, _, _)
SkillsLoop(pSkillIds, pAcc, pOptions, pDebugMode) ==
    IF pSkillIds = <<>> THEN pAcc
    ELSE LET skillId == Head(pSkillIds)
             totals == SkillFilteredTotals(skillId, pOptions)
             isIndirectHealing ==
                 IsSkillIndirectHealing(
                     skillId, mySourceData.SkillsHealing[skillId].Name)
             next ==
                 [vector |->
                      IF EmitsOwnEntry(isIndirectHealing, pDebugMode)
                      THEN Add(pAcc.vector, skillId,
                               SkillDisplayName(skillId, isIndirectHealing,
                                                pDebugMode),
                               totals.totalHealing, totals.ticks)
                      ELSE pAcc.vector,
                  totalIndirectHealing |->
                      pAcc.totalIndirectHealing
                      + (IF isIndirectHealing THEN totals.totalHealing ELSE 0),
                  totalIndirectTicks |->
                      pAcc.totalIndirectTicks
                      + (IF isIndirectHealing THEN totals.ticks ELSE 0)]
         IN SkillsLoop(Tail(pSkillIds), next, pOptions, pDebugMode)

\* the synthetic entry both GetSkills and GetAgentDetails append
AddIndirect(pAcc) ==
    IF pAcc.totalIndirectHealing # 0 \/ pAcc.totalIndirectTicks # 0
    THEN Add(pAcc.vector, IndirectHealingSkillId, IndirectHealingName,
             pAcc.totalIndirectHealing, pAcc.totalIndirectTicks)
    ELSE pAcc.vector

EmptyAcc ==
    [vector |-> EmptyVector, totalIndirectHealing |-> 0,
     totalIndirectTicks |-> 0]

\* the vector GetSkills builds, before Sort
SkillsVector(pOptions, pDebugMode) ==
    AddIndirect(SkillsLoop(Keys(DOMAIN mySourceData.SkillsHealing), EmptyAcc,
                           pOptions, pDebugMode))

-----------------------------------------------------------------------------
(* GetAgentDetails and GetSkillDetails.                                    *)

RECURSIVE AgentDetailsLoop(_, _, _, _)
AgentDetailsLoop(pSkillIds, pAcc, pAgentId, pDebugMode) ==
    IF pSkillIds = <<>> THEN pAcc
    ELSE LET skillId == Head(pSkillIds)
             skill == mySourceData.SkillsHealing[skillId]
             isIndirectHealing == IsSkillIndirectHealing(skillId, skill.Name)
             next ==
                 IF pAgentId \notin DOMAIN skill.AgentsHealing
                 THEN pAcc
                 ELSE LET agent == skill.AgentsHealing[pAgentId]
                      IN [vector |->
                              IF EmitsOwnEntry(isIndirectHealing, pDebugMode)
                              THEN Add(pAcc.vector, skillId,
                                       SkillDisplayName(skillId,
                                                        isIndirectHealing,
                                                        pDebugMode),
                                       agent.TotalHealing, agent.Ticks)
                              ELSE pAcc.vector,
                          totalIndirectHealing |->
                              pAcc.totalIndirectHealing
                              + (IF isIndirectHealing
                                 THEN agent.TotalHealing ELSE 0),
                          totalIndirectTicks |->
                              pAcc.totalIndirectTicks
                              + (IF isIndirectHealing THEN agent.Ticks ELSE 0)]
         IN AgentDetailsLoop(Tail(pSkillIds), next, pAgentId, pDebugMode)

\* GetAgentDetails skipping an agent the filter excludes, as GetSkillDetails
\* does
AgentDetailsVectorFiltered(pAgentId, pDebugMode) ==
    IF Filter(pAgentId, myOptions)
    THEN EmptyVector
    ELSE AddIndirect(AgentDetailsLoop(Keys(DOMAIN mySourceData.SkillsHealing),
                                      EmptyAcc, pAgentId, pDebugMode))

\* the vector GetAgentDetails builds for a new map entry, before Sort
AgentDetailsVector(pAgentId, pDebugMode) ==
    AddIndirect(AgentDetailsLoop(Keys(DOMAIN mySourceData.SkillsHealing),
                                 EmptyAcc, pAgentId, pDebugMode))

RECURSIVE SkillDetailsLoop(_, _, _, _, _)
SkillDetailsLoop(pAgentIds, pVector, pSkillId, pOptions, pDebugMode) ==
    IF pAgentIds = <<>> THEN pVector
    ELSE LET agentId == Head(pAgentIds)
             agent ==
                 mySourceData.SkillsHealing[pSkillId].AgentsHealing[agentId]
             next ==
                 IF Filter(agentId, pOptions)
                 THEN pVector
                 ELSE Add(pVector, agentId,
                          AgentDisplayName(agentId, pDebugMode),
                          agent.TotalHealing, agent.Ticks)
         IN SkillDetailsLoop(Tail(pAgentIds), next, pSkillId, pOptions,
                             pDebugMode)

\* the vector GetSkillDetails builds for a new map entry, before Sort
SkillDetailsVector(pSkillId, pOptions, pDebugMode) ==
    IF pSkillId \notin DOMAIN mySourceData.SkillsHealing
    THEN EmptyVector
    ELSE SkillDetailsLoop(
             Keys(DOMAIN mySourceData.SkillsHealing[pSkillId].AgentsHealing),
             EmptyVector, pSkillId, pOptions, pDebugMode)

-----------------------------------------------------------------------------
(* GetGroupFilterTotals.                                                   *)

\* fakeOptions with the ExcludeOffGroup of the cases Group and Squad swapped
FakeOptionsOffGroupSwapped(i) ==
    [ExcludeGroup |-> FALSE,
     ExcludeOffGroup |-> i = 1,
     ExcludeOffSquad |-> i \in {0, 1},
     ExcludeMinions |-> i \in {0, 1, 2},
     ExcludeUnmapped |-> TRUE]

\* fakeOptions as the switch sets it for GroupFilter i (0 = Group,
\* 1 = Squad, 2 = AllExcludingMinions, 3 = All)
FakeOptions(i) ==
    [ExcludeGroup |-> FALSE,
     ExcludeOffGroup |-> i = 0,
     ExcludeOffSquad |-> i \in {0, 1},
     ExcludeMinions |-> i \in {0, 1, 2},
     ExcludeUnmapped |-> TRUE]

\* the agents whose totals the loop adds to entry i
GroupFilterAgents(pAllAgents, i) ==
    Keys({a \in DOMAIN pAllAgents : ~FilterInternal(FindAgent(a), FakeOptions(i))})

GroupFilterEntry(pAllAgents, i) ==
    LET agentIds == GroupFilterAgents(pAllAgents, i)
    IN AggregatedStatsEntry(
           0, GROUP_FILTER_STRING[i + 1],
           SumSeq([k \in 1..Len(agentIds) |->
                       pAllAgents[agentIds[k]].TotalHealing]),
           SumSeq([k \in 1..Len(agentIds) |-> pAllAgents[agentIds[k]].Ticks]))

RECURSIVE HighestHealingOf(_)
HighestHealingOf(pEntries) ==
    IF pEntries = <<>> THEN 0
    ELSE Max(Head(pEntries).Healing, HighestHealingOf(Tail(pEntries)))

GroupFilterTotalsVector(pAllAgents) ==
    LET entries == [k \in 1..GroupFilterMax |->
                        GroupFilterEntry(pAllAgents, k - 1)]
    IN [Entries |-> entries, HighestHealing |-> HighestHealingOf(entries)]

-----------------------------------------------------------------------------
(* GetCombatTime.                                                          *)

CombatEnd(pEndCondition) ==
    IF pEndCondition = "CombatExit" /\ mySourceData.ExitedCombatTime # 0
    THEN mySourceData.ExitedCombatTime
    ELSE IF pEndCondition = "LastHealEvent" /\ mySourceData.LastHealEvent # 0
    THEN mySourceData.LastHealEvent
    ELSE Max(mySourceData.EnteredCombatTime,
             Max(mySourceData.LastHealEvent, mySourceData.LastDamageEvent))

-----------------------------------------------------------------------------
(* The public operations.  Each returns a reference into a cache slot;     *)
(* ret names the slot (and the key, for the two detail maps).              *)

Slot(pName, pId) == [slot |-> pName, id |-> pId]

NoCall == Slot("none", 0)

\* the entry or vector a returned reference points at
Deref(pRef) ==
    CASE pRef.slot = "myTotal" -> myTotal
      [] pRef.slot = "mySkills" -> mySkills
      [] pRef.slot = "myFilteredAgents" -> myFilteredAgents
      [] pRef.slot = "myGroupFilterTotals" -> myGroupFilterTotals
      [] pRef.slot = "myAgentsDetailed" -> myAgentsDetailed[pRef.id]
      [] pRef.slot = "mySkillsDetailed" -> mySkillsDetailed[pRef.id]

Sorted(pVector) ==
    {[pVector EXCEPT !.Entries = s] :
         s \in Sort(myOptions.SortOrderChoice, pVector.Entries)}

\* the values *mySkills can have when GetSkills returns
SkillsResults ==
    IF mySkills # NullPtr THEN {mySkills}
    ELSE Sorted(SkillsVector(myOptions, myDebugMode))

\* the values *myFilteredAgents can have when GetAgents returns
AgentsResults ==
    IF myFilteredAgents # NullPtr THEN {myFilteredAgents}
    ELSE Sorted(AgentsVector(GetAllAgents, myOptions, myDebugMode))

\* GetAgentDetails without the return of the cached value: the loop adds the
\* entries to the vector the map already holds
AgentDetailsResultsAddedAgain(pAgentId) ==
    LET old == IF pAgentId \in DOMAIN myAgentsDetailed
               THEN myAgentsDetailed[pAgentId] ELSE EmptyVector
        new == AgentDetailsVector(pAgentId, myDebugMode)
    IN {[a \in DOMAIN myAgentsDetailed \cup {pAgentId} |->
             IF a = pAgentId THEN v ELSE myAgentsDetailed[a]] :
            v \in Sorted([Entries |-> old.Entries \o new.Entries,
                          HighestHealing |-> Max(old.HighestHealing,
                                                 new.HighestHealing)])}

\* the values myAgentsDetailed can have when GetAgentDetails returns
AgentDetailsResults(pAgentId) ==
    IF pAgentId \in DOMAIN myAgentsDetailed THEN {myAgentsDetailed}
    ELSE {myAgentsDetailed @@ (pAgentId :> v) :
              v \in Sorted(AgentDetailsVector(pAgentId, myDebugMode))}

\* the values mySkillsDetailed can have when GetSkillDetails returns
SkillDetailsResults(pSkillId) ==
    IF pSkillId \in DOMAIN mySkillsDetailed THEN {mySkillsDetailed}
    ELSE {mySkillsDetailed @@ (pSkillId :> v) :
              v \in Sorted(SkillDetailsVector(pSkillId, myOptions, myDebugMode))}

\* the total GetTotal makes of a skills vector
TotalOf(pSkills) ==
    AggregatedStatsEntry(0, TotalName, SumHealing(pSkills.Entries),
                         SumHits(pSkills.Entries))

GetSkills ==
    /\ mySkills' \in SkillsResults
    /\ ret' = Slot("mySkills", 0)
    /\ UNCHANGED <<input, myTotal, myAllAgents, myFilteredAgents,
                   myGroupFilterTotals, myAgentsDetailed, mySkillsDetailed>>

GetTotal ==
    /\ IF myTotal # NullPtr
       THEN UNCHANGED <<myTotal, mySkills>>
       ELSE /\ mySkills' \in SkillsResults
            /\ myTotal' = TotalOf(mySkills')
    /\ ret' = Slot("myTotal", 0)
    /\ UNCHANGED <<input, myAllAgents, myFilteredAgents, myGroupFilterTotals,
                   myAgentsDetailed, mySkillsDetailed>>

GetAgents ==
    /\ IF myFilteredAgents # NullPtr
       THEN UNCHANGED <<myFilteredAgents, myAllAgents>>
       ELSE /\ myAllAgents' = GetAllAgents
            /\ myFilteredAgents' \in AgentsResults
    /\ ret' = Slot("myFilteredAgents", 0)
    /\ UNCHANGED <<input, myTotal, mySkills, myGroupFilterTotals,
                   myAgentsDetailed, mySkillsDetailed>>

GetGroupFilterTotals ==
    /\ IF myGroupFilterTotals # NullPtr
       THEN UNCHANGED <<myGroupFilterTotals, myAllAgents>>
       ELSE /\ myAllAgents' = GetAllAgents
            /\ myGroupFilterTotals' = GroupFilterTotalsVector(GetAllAgents)
    /\ ret' = Slot("myGroupFilterTotals", 0)
    /\ UNCHANGED <<input, myTotal, mySkills, myFilteredAgents,
                   myAgentsDetailed, mySkillsDetailed>>

GetAgentDetails(pAgentId) ==
    /\ myAgentsDetailed' \in AgentDetailsResults(pAgentId)
    /\ ret' = Slot("myAgentsDetailed", pAgentId)
    /\ UNCHANGED <<input, myTotal, myAllAgents, myFilteredAgents, mySkills,
                   myGroupFilterTotals, mySkillsDetailed>>

GetSkillDetails(pSkillId) ==
    /\ mySkillsDetailed' \in SkillDetailsResults(pSkillId)
    /\ ret' = Slot("mySkillsDetailed", pSkillId)
    /\ UNCHANGED <<input, myTotal, myAllAgents, myFilteredAgents, mySkills,
                   myGroupFilterTotals, myAgentsDetailed>>

GetStats(pDataSource) ==
    CASE pDataSource = "Skills" -> GetSkills
      [] pDataSource = "Agents" -> GetAgents
      [] OTHER -> GetGroupFilterTotals

\* case Skills calls GetSkillDetails, drops what it returns and, having no
\* return or break, runs on into case Agents
GetDetails(pDataSource, pId) ==
    /\ IF pDataSource = "Skills"
       THEN mySkillsDetailed' \in SkillDetailsResults(pId)
       ELSE UNCHANGED mySkillsDetailed
    /\ myAgentsDetailed' \in AgentDetailsResults(pId)
    /\ ret' = Slot("myAgentsDetailed", pId)
    /\ UNCHANGED <<input, myTotal, myAllAgents, myFilteredAgents, mySkills,
                   myGroupFilterTotals>>

\* the value returned is (end - EnteredCombatTime) / 1000; ret keeps the
\* numerator, in milliseconds
GetCombatTime ==
    /\ ret' = Slot("CombatTime",
                   CombatEnd(myOptions.CombatEndConditionChoice)
                   - mySourceData.EnteredCombatTime)
    /\ UNCHANGED <<input, caches>>

-----------------------------------------------------------------------------
(* Snapshots and options the orchestrator is constructed with.             *)

\* agents are named "A", "B", "C"; skills "S1", "S2"
AgentName(pAgentId) == <<64 + pAgentId>>

SkillName(pSkillId) == <<83, 48 + pSkillId>>

Healed(pTotalHealing, pTicks) ==
    [TotalHealing |-> pTotalHealing, Ticks |-> pTicks]

\* what agent a healed with skill s, when the snapshot holds that record
Records ==
    (<<1, 1>> :> Healed(100, 10)) @@ (<<2, 1>> :> Healed(50, 5))
    @@ (<<1, 2>> :> Healed(30, 3)) @@ (<<2, 2>> :> Healed(2, 2))
    @@ (<<1, 3>> :> Healed(5, 1)) @@ (<<2, 3>> :> Healed(0, 1))

Cells == SkillIds \X AgentIds

Times(pEntered, pExited, pLastHeal, pLastDamage) ==
    [EnteredCombatTime |-> pEntered, ExitedCombatTime |-> pExited,
     LastHealEvent |-> pLastHeal, LastDamageEvent |-> pLastDamage]

\* pInfo: the mapped agents' subgroup and minion flag; pCells: the
\* (skill, agent) records held
Snapshot(pInfo, pSubGroup, pCells, pTimes) ==
    LET skillIds == {c[1] : c \in pCells}
    IN [Agents |->
            [a \in DOMAIN pInfo |->
                 [Name |-> AgentName(a), Subgroup |-> pInfo[a].Subgroup,
                  IsMinion |-> pInfo[a].IsMinion]],
        SkillsHealing |->
            [s \in skillIds |->
                 [Name |-> SkillName(s),
                  AgentsHealing |->
                      [a \in {c[2] : c \in {d \in pCells : d[1] = s}} |->
                           Records[<<s, a>>]]]],
        SubGroup |-> pSubGroup,
        EnteredCombatTime |-> pTimes.EnteredCombatTime,
        ExitedCombatTime |-> pTimes.ExitedCombatTime,
        LastHealEvent |-> pTimes.LastHealEvent,
        LastDamageEvent |-> pTimes.LastDamageEvent]

AgentInfos == [Subgroup : 0..MaxSubgroup, IsMinion : BOOLEAN]

Player(pSubgroup) == [Subgroup |-> pSubgroup, IsMinion |-> FALSE]

\* local subgroup 1; A in subgroup 1 healed 100 with S1 and 50 with S2,
\* B in subgroup 2 healed 30 with S1, C (not in the agent map) healed 5
\* with S1
ScenarioInfo == (1 :> Player(1)) @@ (2 :> Player(2))

ScenarioCells == {<<1, 1>>, <<2, 1>>, <<1, 2>>, <<1, 3>>}

DefaultTimes == Times(1, 2, 2, 2)

ScenarioSnapshot == Snapshot(ScenarioInfo, 1, ScenarioCells, DefaultTimes)

Options(pGroup, pOffGroup, pOffSquad, pMinions, pUnmapped, pSort, pEnd) ==
    [ExcludeGroup |-> pGroup, ExcludeOffGroup |-> pOffGroup,
     ExcludeOffSquad |-> pOffSquad, ExcludeMinions |-> pMinions,
     ExcludeUnmapped |-> pUnmapped, SortOrderChoice |-> pSort,
     CombatEndConditionChoice |-> pEnd]

\* the state the constructor leaves
Constructed(pSourceData, pOptions, pDebugMode) ==
    /\ pOptions.SortOrderChoice \in SortOrders
    /\ mySourceData = pSourceData
    /\ myOptions = pOptions
    /\ myDebugMode = pDebugMode
    /\ myTotal = NullPtr
    /\ myAllAgents = NullPtr
    /\ myFilteredAgents = NullPtr
    /\ mySkills = NullPtr
    /\ myGroupFilterTotals = NullPtr
    /\ myAgentsDetailed = <<>>
    /\ mySkillsDetailed = <<>>
    /\ ret = NoCall

-----------------------------------------------------------------------------
(* Spec: every operation, on the scenario's snapshot.                      *)

\* the scenario's options: excludeOffGroup and excludeUnmapped; every sort
\* order, debug mode on and off
Init ==
    \E d \in BOOLEAN, so \in SortOrders :
        Constructed(ScenarioSnapshot,
                    Options(FALSE, TRUE, FALSE, FALSE, TRUE, so, "CombatExit"),
                    d)

Next ==
    \/ GetTotal
    \/ GetSkills
    \/ GetAgents
    \/ GetGroupFilterTotals
    \/ \E ds \in DataSources : GetStats(ds)
    \/ \E id \in DetailIds : GetAgentDetails(id)
    \/ \E id \in DetailIds : GetSkillDetails(id)
    \/ \E ds \in DataSources, id \in DetailIds : GetDetails(ds, id)
    \/ GetCombatTime

Spec == Init /\ [][Next]_vars

-----------------------------------------------------------------------------
(* SpecViews: GetTotal, GetSkills and GetAgents under every combination of *)
(* the five exclude flags and both debug modes.  A and B are mapped, with  *)
(* every subgroup and minion flag; C is never in the agent map.  The local *)
(* subgroup is 0 or 1: the filter only tests subgroups for being 0 and for *)
(* being equal, so one nonzero local subgroup stands for all of them.      *)

LocalSubgroups == {0, 1}

\* every record, or the scenario's records
ViewLayouts == {Cells, ScenarioCells}

InitViews ==
    \E infoA, infoB \in AgentInfos, sub \in LocalSubgroups,
       cells \in ViewLayouts, g, og, os, m, u, d \in BOOLEAN :
        Constructed(Snapshot((1 :> infoA) @@ (2 :> infoB), sub, cells,
                             DefaultTimes),
                    Options(g, og, os, m, u, "DescendingSize", "CombatExit"),
                    d)

NextViews ==
    \/ GetTotal
    \/ GetSkills
    \/ GetAgents

SpecViews == InitViews /\ [][NextViews]_vars

-----------------------------------------------------------------------------
(* SpecGroup: GetGroupFilterTotals on every snapshot: each agent unmapped  *)
(* or mapped with any subgroup and minion flag, every set of records.      *)

InitGroup ==
    \E mapped \in SUBSET AgentIds, sub \in LocalSubgroups,
       cells \in SUBSET Cells :
        \E info \in [mapped -> AgentInfos] :
            Constructed(Snapshot(info, sub, cells, DefaultTimes),
                        Options(FALSE, TRUE, FALSE, FALSE, TRUE,
                                "DescendingSize", "CombatExit"),
                        FALSE)

NextGroup == GetGroupFilterTotals

SpecGroup == InitGroup /\ [][NextGroup]_vars

-----------------------------------------------------------------------------
(* SpecDetails: GetAgents and GetAgentDetails on the scenario's agents,    *)
(* with every set of records and every filter configuration.               *)

InitDetails ==
    \E cells \in SUBSET Cells, g, og, os, m, u, d \in BOOLEAN :
        Constructed(Snapshot(ScenarioInfo, 1, cells, DefaultTimes),
                    Options(g, og, os, m, u, "DescendingSize", "CombatExit"),
                    d)

NextDetails ==
    \/ GetAgents
    \/ \E id \in DetailIds : GetAgentDetails(id)

SpecDetails == InitDetails /\ [][NextDetails]_vars

-----------------------------------------------------------------------------
(* SpecCombat: GetCombatTime on every choice of the four timestamps and    *)
(* every combat end condition.                                             *)

InitCombat ==
    \E entered, exited, lastHeal, lastDamage \in 0..MaxTime,
       endCondition \in CombatEndConditions :
        Constructed(Snapshot(ScenarioInfo, 1, ScenarioCells,
                             Times(entered, exited, lastHeal, lastDamage)),
                    Options(FALSE, TRUE, FALSE, FALSE, TRUE, "DescendingSize",
                            endCondition),
                    FALSE)

NextCombat == GetCombatTime

SpecCombat == InitCombat /\ [][NextCombat]_vars

-----------------------------------------------------------------------------
(* Properties.                                                             *)

ExcludeFlags == {"ExcludeGroup", "ExcludeOffGroup", "ExcludeOffSquad",
                 "ExcludeMinions", "ExcludeUnmapped"}

HasEntry(pVector, pId) ==
    \E i \in 1..Len(pVector.Entries) : pVector.Entries[i].Id = pId

HealingColumn(pVector) ==
    [i \in 1..Len(pVector.Entries) |-> pVector.Entries[i].Healing]

HitsColumn(pVector) ==
    [i \in 1..Len(pVector.Entries) |-> pVector.Entries[i].Hits]

NameColumn(pVector) ==
    [i \in 1..Len(pVector.Entries) |-> pVector.Entries[i].Name]

\* the agents with a record in some skill of the snapshot
Healers ==
    UNION {DOMAIN mySourceData.SkillsHealing[s].AgentsHealing :
               s \in DOMAIN mySourceData.SkillsHealing}

\* C1: once GetSkills, GetAgents and GetTotal have run, the Healing of the
\* skills view's entries and of the agents view's entries sum to the same
\* value, which is the total's Healing, under every filter configuration
\* and in both debug modes.
C1_ConservationAcrossViews ==
    (mySkills # NullPtr /\ myFilteredAgents # NullPtr /\ myTotal # NullPtr)
    => /\ SumHealing(mySkills.Entries) = SumHealing(myFilteredAgents.Entries)
       /\ SumHealing(mySkills.Entries) = myTotal.Healing

\* C2: the total GetTotal returned has the Healing and the Hits that an
\* orchestrator with the same snapshot and options but the other debug mode
\* returns.
C2_DebugModeKeepsTotals ==
    myTotal # NullPtr
    => LET other == TotalOf(SkillsVector(myOptions, ~myDebugMode))
       IN myTotal.Healing = other.Healing /\ myTotal.Hits = other.Hits

\* C3: every GetDetails(Skills, id) step returns the table of skill id's
\* agents (what GetSkillDetails(id) returns), and every GetDetails step with
\* another data source returns the table of agent id's skills (what
\* GetAgentDetails(id) returns).
C3_GetDetailsDispatch ==
    [][\A ds \in DataSources, id \in DetailIds :
           GetDetails(ds, id)
           => IF ds = "Skills"
              THEN Deref(ret)' = mySkillsDetailed'[id]
              ELSE Deref(ret)' = myAgentsDetailed'[id]]_vars

\* C4 as claimed: on the scenario's snapshot GetGroupFilterTotals gives
\* Group 150, Squad 180, All (Excluding Summons) 185 and
\* All (Including Summons) 185.
C4_ScenarioAsClaimed ==
    (mySourceData = ScenarioSnapshot /\ myGroupFilterTotals # NullPtr)
    => HealingColumn(myGroupFilterTotals) = <<150, 180, 185, 185>>

\* C4 amended: on the scenario's snapshot GetGroupFilterTotals gives
\* Group 150, Squad 180, All (Excluding Summons) 180 and
\* All (Including Summons) 180, with 15, 18, 18 and 18 hits: every preset
\* sets ExcludeUnmapped, so C's 5 is in none of them.
C4_Scenario ==
    (mySourceData = ScenarioSnapshot /\ myGroupFilterTotals # NullPtr)
    => /\ HealingColumn(myGroupFilterTotals) = <<150, 180, 180, 180>>
       /\ HitsColumn(myGroupFilterTotals) = <<15, 18, 18, 18>>
       /\ myGroupFilterTotals.HighestHealing = 180

C4_Witness ==
    /\ mySourceData = ScenarioSnapshot
    /\ myGroupFilterTotals # NullPtr
    /\ ret = Slot("myGroupFilterTotals", 0)
    /\ 3 \in DOMAIN myAllAgents
    /\ myAllAgents[3].TotalHealing = 5

\* the mapped agents that are no minions and have subgroup 0 while the local
\* subgroup is 0 too, and healed something
UngroupedHealers ==
    {a \in DOMAIN mySourceData.Agents \cap Healers :
         /\ ~mySourceData.Agents[a].IsMinion
         /\ mySourceData.Agents[a].Subgroup = 0
         /\ mySourceData.SubGroup = 0}

\* C5 as claimed: in an ungrouped encounter the filter includes a mapped
\* agent that is no minion and has subgroup 0, whatever ExcludeGroup,
\* ExcludeOffGroup and ExcludeOffSquad are, so GetAgents has its entry.
C5_UngroupedAsClaimed ==
    myFilteredAgents # NullPtr
    => \A a \in UngroupedHealers :
           ~Filter(a, myOptions) /\ HasEntry(myFilteredAgents, a)

\* C5 amended: in an ungrouped encounter the filter includes a mapped agent
\* that is no minion and has subgroup 0 exactly when ExcludeGroup is off;
\* ExcludeOffGroup and ExcludeOffSquad never exclude it.  GetAgents has its
\* entry exactly then.
C5_Ungrouped ==
    myFilteredAgents # NullPtr
    => \A a \in UngroupedHealers :
           /\ Filter(a, myOptions) = myOptions.ExcludeGroup
           /\ HasEntry(myFilteredAgents, a) = ~myOptions.ExcludeGroup

C5_Witness ==
    /\ myFilteredAgents # NullPtr
    /\ myOptions.ExcludeOffGroup
    /\ myOptions.ExcludeOffSquad
    /\ ~myOptions.ExcludeGroup
    /\ \E a \in UngroupedHealers : HasEntry(myFilteredAgents, a)

\* the agents GroupFilter i lets through, of all agent ids
GroupFilterIncluded(i) ==
    {a \in AgentIds : ~FilterInternal(FindAgent(a), FakeOptions(i))}

\* C6: GetGroupFilterTotals returns the entries Group, Squad,
\* All (Excluding Summons), All (Including Summons) in this order; Healing
\* and Hits do not decrease along them, and each preset lets through every
\* agent the one before it lets through.
C6_GroupFilterOrdering ==
    myGroupFilterTotals # NullPtr
    => /\ NameColumn(myGroupFilterTotals) = GROUP_FILTER_STRING
       /\ \A i \in 1..(GroupFilterMax - 1) :
              /\ myGroupFilterTotals.Entries[i].Healing
                     <= myGroupFilterTotals.Entries[i + 1].Healing
              /\ myGroupFilterTotals.Entries[i].Hits
                     <= myGroupFilterTotals.Entries[i + 1].Hits
              /\ GroupFilterIncluded(i - 1) \subseteq GroupFilterIncluded(i)

C6_Witness ==
    /\ myGroupFilterTotals # NullPtr
    /\ \A i \in 1..(GroupFilterMax - 1) :
           myGroupFilterTotals.Entries[i].Healing
               < myGroupFilterTotals.Entries[i + 1].Healing

\* C7: switching on any one exclude flag that is off, the other four kept,
\* excludes every agent that was excluded before, and an orchestrator with
\* that flag on has sums of Healing and of Hits in GetSkills, GetAgents and
\* GetTotal no higher than the ones this orchestrator returned.
C7_FilterMonotonicity ==
    \A f \in ExcludeFlags :
        ~myOptions[f]
        => LET more == [myOptions EXCEPT ![f] = TRUE]
               skills == SkillsVector(more, myDebugMode)
               agents == AgentsVector(AllAgentsMap, more, myDebugMode)
           IN /\ \A a \in AgentIds :
                      Filter(a, myOptions) => Filter(a, more)
              /\ mySkills # NullPtr
                 => /\ SumHealing(skills.Entries) <= SumHealing(mySkills.Entries)
                    /\ SumHits(skills.Entries) <= SumHits(mySkills.Entries)
              /\ myFilteredAgents # NullPtr
                 => /\ SumHealing(agents.Entries)
                           <= SumHealing(myFilteredAgents.Entries)
                    /\ SumHits(agents.Entries)
                           <= SumHits(myFilteredAgents.Entries)
              /\ myTotal # NullPtr
                 => /\ TotalOf(skills).Healing <= myTotal.Healing
                    /\ TotalOf(skills).Hits <= myTotal.Hits

C7_Witness ==
    /\ mySkills # NullPtr
    /\ myFilteredAgents # NullPtr
    /\ myTotal # NullPtr
    /\ \A f \in {"ExcludeGroup", "ExcludeMinions", "ExcludeUnmapped"} :
           /\ ~myOptions[f]
           /\ TotalOf(SkillsVector([myOptions EXCEPT ![f] = TRUE],
                                   myDebugMode)).Healing < myTotal.Healing

\* C8: a step changes no cache slot that is present: the total, the agents,
\* skills and group filter vectors and the merged agents stay what they are
\* once set, and a key of either detail map keeps its vector.  Every call
\* returns a reference into these slots, so it returns what its first call
\* returned.
C8_ComputeOnce ==
    [][/\ myTotal # NullPtr => myTotal' = myTotal
       /\ myFilteredAgents # NullPtr => myFilteredAgents' = myFilteredAgents
       /\ mySkills # NullPtr => mySkills' = mySkills
       /\ myGroupFilterTotals # NullPtr
          => myGroupFilterTotals' = myGroupFilterTotals
       /\ myAllAgents # NullPtr => myAllAgents' = myAllAgents
       /\ \A id \in DOMAIN myAgentsDetailed :
              /\ id \in DOMAIN myAgentsDetailed'
              /\ myAgentsDetailed'[id] = myAgentsDetailed[id]
       /\ \A id \in DOMAIN mySkillsDetailed :
              /\ id \in DOMAIN mySkillsDetailed'
              /\ mySkillsDetailed'[id] = mySkillsDetailed[id]]_vars

C8_Witness ==
    /\ myTotal # NullPtr
    /\ myFilteredAgents # NullPtr
    /\ mySkills # NullPtr
    /\ myGroupFilterTotals # NullPtr
    /\ myAllAgents # NullPtr
    /\ DOMAIN myAgentsDetailed = DetailIds
    /\ DOMAIN mySkillsDetailed = DetailIds
    /\ ret = Slot("myAgentsDetailed", 1)
    /\ Len(myAgentsDetailed[1].Entries) = 2

\* C9: whenever GetCombatTime has returned, EnteredCombatTime <= end held
\* at its assertion, that is, the time it returned is not negative.
C9_CombatTimeAssertion ==
    ret.slot = "CombatTime" => ret.id >= 0

\* what agent pAgentId healed with all its skills, by the snapshot
MergedOf(pAgentId) ==
    IF pAgentId \in DOMAIN AllAgentsMap THEN AllAgentsMap[pAgentId]
    ELSE [TotalHealing |-> 0, Ticks |-> 0]

\* the ids of the entries the snapshot gives agent pAgentId's details when
\* debug mode is off: its skills that are no indirect healing, and the
\* synthetic entry when an indirect skill has healing or ticks of it
DetailIdsOf(pAgentId) ==
    LET skills == mySourceData.SkillsHealing
        own == {s \in DOMAIN skills : pAgentId \in DOMAIN skills[s].AgentsHealing}
        indirect == {s \in own : IsSkillIndirectHealing(s, skills[s].Name)}
    IN (own \ indirect)
       \cup (IF \E s \in indirect :
                    \/ skills[s].AgentsHealing[pAgentId].TotalHealing # 0
                    \/ skills[s].AgentsHealing[pAgentId].Ticks # 0
             THEN {IndirectHealingSkillId} ELSE {})

\* C10: with debug mode off, the Healing and the Hits of
\* GetAgentDetails(id)'s entries sum to what the agent healed over all its
\* skills, which is its entry's Healing and Hits in GetAgents when it has
\* one; the entries are those of the agent's skills whatever the exclude
\* flags are, also for an agent the filter excludes.
C10_AgentDrillDown ==
    ~myDebugMode
    => \A id \in DOMAIN myAgentsDetailed :
           LET details == myAgentsDetailed[id]
           IN /\ SumHealing(details.Entries) = MergedOf(id).TotalHealing
              /\ SumHits(details.Entries) = MergedOf(id).Ticks
              /\ {details.Entries[i].Id : i \in 1..Len(details.Entries)}
                     = DetailIdsOf(id)
              /\ Len(details.Entries) = Cardinality(DetailIdsOf(id))
              /\ myFilteredAgents # NullPtr
                 => \A i \in 1..Len(myFilteredAgents.Entries) :
                        myFilteredAgents.Entries[i].Id = id
                        => /\ myFilteredAgents.Entries[i].Healing
                                  = SumHealing(details.Entries)
                           /\ myFilteredAgents.Entries[i].Hits
                                  = SumHits(details.Entries)

C10_Witness ==
    /\ ~myDebugMode
    /\ myFilteredAgents # NullPtr
    /\ HasEntry(myFilteredAgents, 1)
    /\ 1 \in DOMAIN myAgentsDetailed
    /\ HasEntry(myAgentsDetailed[1], IndirectHealingSkillId)
    /\ HasEntry(myAgentsDetailed[1], 1)
    /\ 2 \in DOMAIN myAgentsDetailed
    /\ Filter(2, myOptions)
    /\ Len(myAgentsDetailed[2].Entries) = 2
====
